---- MODULE Spec2Model ----
(***************************************************************************)
(* Model of src/src/trie.rs: a generic prefix tree Trie<T>.                *)
(*                                                                         *)
(* A Trie value is a tree of nodes, each owning a HashMap<char, Trie<T>>,  *)
(* an is_leaf flag and an Option<T> value.  The tree is represented here   *)
(* as a function from the path of a node (the sequence of characters       *)
(* followed from the root) to the node's two scalar fields; the children   *)
(* map of the node at path p is the set of characters c such that          *)
(* Append(p, c) is again a path of the function's domain.                  *)
(***************************************************************************)
EXTENDS Integers, Sequences, FiniteSets, TLC

\* ---------------------------------------------------------------- bounds
MaxLen == 2          \* longest word passed to insert / remove
NumChars == 2        \* size of the alphabet
NumValues == 2       \* number of distinct values of type T
MaxOps == 4          \* number of insert / remove calls in one run

\* ------------------------------------------------------------- constants
None == 0            \* Option::None for `value`
NoIndex == -1        \* Option::None for `previous_word_index`

Alphabet == <<"a", "b", "c", "d">>
Chars == {Alphabet[i] : i \in 1..NumChars}
Values == 1..NumValues
OptValues == Values \cup {None}
Words == UNION {[1..n -> Chars] : n \in 0..MaxLen}

\* Every order in which a HashMap may iterate over its keys.
Orders == {o \in [1..NumChars -> Chars] : \A i, j \in 1..NumChars : o[i] = o[j] => i = j}

VARIABLES
    trie,       \* the tree owned by the root: path |-> [is_leaf, value]
    M,          \* the abstract map word |-> value (None: absent)
    op,         \* name of the last completed call
    word,       \* its word argument
    val,        \* its value argument (insert)
    result,     \* its return value (remove)
    wasStored,  \* contains(word) just before the last call
    wasPath,    \* word was a valid path just before the last call
    nops        \* number of calls made so far

vars == <<trie, M, op, word, val, result, wasStored, wasPath, nops>>

\* ------------------------------------------------------------ the node
\* Trie::default
Default == [is_leaf |-> FALSE, value |-> None]

\* Trie::new
new == [p \in {<<>>} |-> Default]

\* self.children of the node at path p, as its key set
children(t, p) == {c \in Chars : Append(p, c) \in DOMAIN t}

\* The prefix of w made of its first i characters.
Take(w, i) == SubSeq(w, 1, IF i < Len(w) THEN i ELSE Len(w))

\* The loop `for c in word.chars() { match children.get(&c) ... }` reaches
\* the end of the word: every character can be followed from the root.
ValidPath(t, w) == \A i \in 1..Len(w) : w[i] \in children(t, Take(w, i - 1))

\* ------------------------------------------------------------ contains
\* contains that returns true at the end of every valid path
contains_any_path(t, w) ==
    IF ~ValidPath(t, w) THEN FALSE ELSE TRUE

contains(t, w) ==
    IF ~ValidPath(t, w) THEN FALSE
    ELSE IF t[w].value # None THEN TRUE ELSE FALSE

\* -------------------------------------------------------------- insert
\* children.entry(c).or_insert(Trie::default()) on the node at path p
or_insert(t, p, c) ==
    LET q == Append(p, c)
    IN  IF q \in DOMAIN t THEN t
        ELSE [r \in DOMAIN t \cup {q} |-> IF r = q THEN Default ELSE t[r]]

\* word.chars().fold(self, ...), from character i on
\* Variant that leaves is_leaf alone on the nodes passed through.
RECURSIVE insert_fold_keeps_flag(_, _, _)
insert_fold_keeps_flag(t, w, i) ==
    IF i > Len(w) THEN t
    ELSE insert_fold_keeps_flag(or_insert(t, Take(w, i - 1), w[i]), w, i + 1)

RECURSIVE insert_fold(_, _, _)
insert_fold(t, w, i) ==
    IF i > Len(w) THEN t
    ELSE LET cur == Take(w, i - 1)
             t1 == [t EXCEPT ![cur].is_leaf = FALSE]
         IN  insert_fold(or_insert(t1, cur, w[i]), w, i + 1)

\* insert that leaves the old value in place when called with None
insert_keeps_on_none(t, w, v) ==
    LET t1 == insert_fold(t, w, 1)
        t2 == IF v = None THEN t1 ELSE [t1 EXCEPT ![w].value = v]
    IN  IF children(t2, w) = {} THEN [t2 EXCEPT ![w].is_leaf = TRUE] ELSE t2

\* insert that sets the value only of a node that has none yet
insert_first_wins(t, w, v) ==
    LET t1 == insert_fold(t, w, 1)
        t2 == IF t1[w].value # None THEN t1 ELSE [t1 EXCEPT ![w].value = v]
    IN  IF children(t2, w) = {} THEN [t2 EXCEPT ![w].is_leaf = TRUE] ELSE t2

insert(t, w, v) ==
    LET t1 == insert_fold(t, w, 1)
        t2 == [t1 EXCEPT ![w].value = v]
    IN  IF children(t2, w) = {} THEN [t2 EXCEPT ![w].is_leaf = TRUE] ELSE t2

\* ------------------------------------------------------------- queries
\* The loop of get_previous_word_index from index i on.
\* Variant that returns the index found so far when the path breaks off.
RECURSIVE gpwi_loop_partial(_, _, _, _)
gpwi_loop_partial(t, w, i, prev) ==
    IF i >= Len(w) THEN prev
    ELSE LET cur == Take(w, i)
             prev1 == IF t[cur].value # None THEN i ELSE prev
         IN  IF w[i + 1] \in children(t, cur)
             THEN gpwi_loop_partial(t, w, i + 1, prev1)
             ELSE prev1

\* Variant that keeps the first index found instead of the last.
RECURSIVE gpwi_loop_first(_, _, _, _)
gpwi_loop_first(t, w, i, prev) ==
    IF i >= Len(w) THEN prev
    ELSE LET cur == Take(w, i)
             prev1 == IF t[cur].value # None /\ prev = NoIndex THEN i ELSE prev
         IN  IF w[i + 1] \in children(t, cur)
             THEN gpwi_loop_first(t, w, i + 1, prev1)
             ELSE NoIndex

RECURSIVE gpwi_loop(_, _, _, _)
gpwi_loop(t, w, i, prev) ==
    IF i >= Len(w) THEN prev
    ELSE LET cur == Take(w, i)
             prev1 == IF t[cur].value # None THEN i ELSE prev
         IN  IF w[i + 1] \in children(t, cur)
             THEN gpwi_loop(t, w, i + 1, prev1)
             ELSE NoIndex

get_previous_word_index(t, w) == gpwi_loop(t, w, 0, NoIndex)

\* -------------------------------------------------------------- remove
\* The loop of remove from index i on; the result is the pair of the tree
\* and the value returned.
RECURSIVE remove_loop(_, _, _, _)
remove_loop(t, w, i, pwi) ==
    IF i >= Len(w) THEN [tree |-> [t EXCEPT ![w].value = None], ret |-> TRUE]
    ELSE LET cur == Take(w, i)
             t1 == IF pwi # NoIndex /\ pwi = i
                   THEN [t EXCEPT ![cur].is_leaf = TRUE] ELSE t
         IN  IF w[i + 1] \in children(t1, cur)
             THEN remove_loop(t1, w, i + 1, pwi)
             ELSE [tree |-> t1, ret |-> FALSE]

\* remove without `current_node.value = None`
remove_keeps_value(t, w) ==
    LET r == remove_loop(t, w, 0, get_previous_word_index(t, w))
    IN  IF r.ret THEN [r EXCEPT !.tree[w].value = t[w].value] ELSE r

\* remove that also clears the value of the previous word on the path
remove_clears_ancestor(t, w) ==
    LET pwi == get_previous_word_index(t, w)
        r == remove_loop(t, w, 0, pwi)
    IN  IF r.ret /\ pwi # NoIndex
        THEN [r EXCEPT !.tree[Take(w, pwi)].value = None] ELSE r

\* remove that returns true on every path
remove_always_true(t, w) ==
    LET r == remove_loop(t, w, 0, get_previous_word_index(t, w))
    IN  [r EXCEPT !.ret = TRUE]

\* remove that returns whether a value was cleared
remove_reports_value(t, w) ==
    LET r == remove_loop(t, w, 0, get_previous_word_index(t, w))
    IN  [r EXCEPT !.ret = r.ret /\ t[w].value # None]

\* remove that drops the node of the word when it has no children
remove_prunes(t, w) ==
    LET r == remove_loop(t, w, 0, get_previous_word_index(t, w))
    IN  IF r.ret /\ w # <<>> /\ children(t, w) = {}
        THEN [r EXCEPT !.tree = [p \in DOMAIN r.tree \ {w} |-> r.tree[p]]]
        ELSE r

\* remove that gives up below a node whose is_leaf flag is set
remove_stops_at_leaf(t, w) ==
    IF \E i \in 0..(Len(w) - 1) : Take(w, i) \in DOMAIN t /\ t[Take(w, i)].is_leaf
    THEN [tree |-> t, ret |-> FALSE]
    ELSE remove_loop(t, w, 0, get_previous_word_index(t, w))

remove(t, w) == remove_loop(t, w, 0, get_previous_word_index(t, w))

\* --------------------------------------------------------- starts_with
\* The `for (k, v) in self.children.iter()` loop of dfs on the node at
\* path prefix \o buffer, from the j-th key of the iteration order on.
\* Variant that visits the children and does not descend below them.
RECURSIVE dfs_loop_shallow(_, _, _, _, _)
dfs_loop_shallow(t, prefix, buffer, ord, j) ==
    IF j > Len(ord) THEN <<>>
    ELSE LET self == prefix \o buffer
             k == ord[j]
         IN  IF k \notin children(t, self)
             THEN dfs_loop_shallow(t, prefix, buffer, ord, j + 1)
             ELSE LET depth == Len(prefix) + Len(buffer)
                      buf == Append(Take(buffer, depth), k)
                      v == t[Append(self, k)]
                      new_word == prefix \o buf
                      here == IF v.value # None
                              THEN << <<new_word, v.value>> >> ELSE <<>>
                  IN  here \o dfs_loop_shallow(t, prefix, buffer, ord, j + 1)

\* Variant that pushes the pair of a child twice.
RECURSIVE dfs_loop_twice(_, _, _, _, _)
dfs_loop_twice(t, prefix, buffer, ord, j) ==
    IF j > Len(ord) THEN <<>>
    ELSE LET self == prefix \o buffer
             k == ord[j]
         IN  IF k \notin children(t, self)
             THEN dfs_loop_twice(t, prefix, buffer, ord, j + 1)
             ELSE LET depth == Len(prefix) + Len(buffer)
                      buf == Append(Take(buffer, depth), k)
                      v == t[Append(self, k)]
                      new_word == prefix \o buf
                      here == IF v.value # None
                              THEN << <<new_word, v.value>> >> ELSE <<>>
                  IN  here \o here \o dfs_loop_twice(t, prefix, buf, ord, 1)
                           \o dfs_loop_twice(t, prefix, buffer, ord, j + 1)

RECURSIVE dfs_loop(_, _, _, _, _)
dfs_loop(t, prefix, buffer, ord, j) ==
    IF j > Len(ord) THEN <<>>
    ELSE LET self == prefix \o buffer
             k == ord[j]
         IN  IF k \notin children(t, self)
             THEN dfs_loop(t, prefix, buffer, ord, j + 1)
             ELSE LET depth == Len(prefix) + Len(buffer)
                      buf == Append(Take(buffer, depth), k)
                      v == t[Append(self, k)]
                      new_word == prefix \o buf
                      here == IF v.value # None
                              THEN << <<new_word, v.value>> >> ELSE <<>>
                  IN  here \o dfs_loop(t, prefix, buf, ord, 1)
                           \o dfs_loop(t, prefix, buffer, ord, j + 1)

dfs(t, prefix, buffer, ord) == dfs_loop(t, prefix, buffer, ord, 1)

\* starts_with without the push of the prefix itself
starts_with_no_self(t, prefix, ord) ==
    IF ~ValidPath(t, prefix) THEN <<>>
    ELSE dfs(t, prefix, <<>>, ord)

starts_with(t, prefix, ord) ==
    IF ~ValidPath(t, prefix) THEN <<>>
    ELSE LET words == dfs(t, prefix, <<>>, ord)
         IN  IF t[prefix].value # None
             THEN Append(words, <<prefix, t[prefix].value>>)
             ELSE words

get_all(t, ord) == starts_with(t, <<>>, ord)

\* ------------------------------------------------------- state machine
Init ==
    /\ trie = new
    /\ M = [w \in Words |-> None]
    /\ op = "new"
    /\ word = <<>>
    /\ val = None
    /\ result = FALSE
    /\ wasStored = FALSE
    /\ wasPath = TRUE
    /\ nops = 0

Insert ==
    /\ nops < MaxOps
    /\ \E w \in Words, v \in OptValues :
        /\ trie' = insert(trie, w, v)
        /\ M' = [M EXCEPT ![w] = v]
        /\ op' = "insert"
        /\ word' = w
        /\ val' = v
        /\ result' = FALSE
        /\ wasStored' = contains(trie, w)
        /\ wasPath' = ValidPath(trie, w)
    /\ nops' = nops + 1

Remove ==
    /\ nops < MaxOps
    /\ \E w \in Words :
        LET r == remove(trie, w)
        IN  /\ trie' = r.tree
            /\ M' = [M EXCEPT ![w] = None]
            /\ op' = "remove"
            /\ word' = w
            /\ val' = None
            /\ result' = r.ret
            /\ wasStored' = contains(trie, w)
            /\ wasPath' = ValidPath(trie, w)
    /\ nops' = nops + 1

Next == Insert \/ Remove

Spec == Init /\ [][Next]_vars

\* The same calls in runs one call shorter, for the property that compares
\* the tree with every other assignment of is_leaf flags in each state.
NextShort == nops < MaxOps - 1 /\ (Insert \/ Remove)

SpecShort == Init /\ [][NextShort]_vars

\* The runs made of insert calls only.
NextInsertOnly == Insert

SpecInsertOnly == Init /\ [][NextInsertOnly]_vars

\* ------------------------------------------------------------- helpers
Range(s) == {s[i] : i \in 1..Len(s)}

IsPrefix(p, w) == Len(p) <= Len(w) /\ SubSeq(w, 1, Len(p)) = p

\* The words of the abstract map, with their values.
Stored == {w \in Words : M[w] # None}

TypeOK ==
    /\ DOMAIN trie \subseteq Words
    /\ \A p \in DOMAIN trie : trie[p].is_leaf \in BOOLEAN /\ trie[p].value \in OptValues

\* ---------------------------------------------------------------- C1
\* C1: after any sequence of insert and remove calls the trie agrees with
\* the abstract map M: contains(w) is true exactly for the words of M, and
\* get_all() pairs each word of M with its value in M and holds nothing else.
C1_AgreesWithMap ==
    /\ \A w \in Words : contains(trie, w) <=> M[w] # None
    /\ \A ord \in Orders :
          Range(get_all(trie, ord)) = {<<w, M[w]>> : w \in Stored}

\* A word was removed while another one stays stored.
C1_Witness ==
    /\ op = "remove" /\ wasStored /\ result
    /\ Stored # {}
    /\ \E w \in Stored : w # word /\ IsPrefix(word, w)

\* ---------------------------------------------------------------- C2
\* C2: for every prefix p, starts_with(p) is, as a set, the (word, value)
\* pairs of the stored words that begin with p (p itself included when it
\* is stored), and it is the empty sequence when p is not a valid path.
C2_StartsWithExact ==
    \A p \in Words : \A ord \in Orders :
        /\ Range(starts_with(trie, p, ord)) =
               {<<w, M[w]>> : w \in {x \in Stored : IsPrefix(p, x)}}
        /\ ~ValidPath(trie, p) => starts_with(trie, p, ord) = <<>>

\* A stored word p with a stored extension, next to a path that is absent.
C2_Witness ==
    \E p \in Stored : \E w \in Stored :
        /\ p # <<>> /\ w # p /\ IsPrefix(p, w)
        /\ \E q \in Words : ~ValidPath(trie, q)
        /\ \E x \in Stored : ~IsPrefix(p, x)

\* ---------------------------------------------------------------- C3
\* C3: a remove(w) that returns true leaves contains(w) false, and for
\* every other word w2 contains(w2) and the value stored for w2 are as
\* before the call; stored extensions of w stay in starts_with(w).
C3_RemoveFrame ==
    [][(op' = "remove" /\ result') =>
        /\ ~contains(trie', word')
        /\ \A w2 \in Words \ {word'} :
              /\ contains(trie', w2) = contains(trie, w2)
              /\ ValidPath(trie, w2) =>
                    /\ ValidPath(trie', w2)
                    /\ trie'[w2].value = trie[w2].value
              /\ (contains(trie, w2) /\ IsPrefix(word', w2)) =>
                    \A ord \in Orders :
                        <<w2, trie[w2].value>> \in
                            Range(starts_with(trie', word', ord))]_vars

\* A stored word with a stored extension and a stored proper prefix was removed.
C3_Witness ==
    /\ op = "remove" /\ result /\ wasStored
    /\ \E w2 \in Stored : w2 # word /\ IsPrefix(word, w2)
    /\ \E w2 \in Stored : w2 # word /\ IsPrefix(w2, word)

\* ---------------------------------------------------------------- C4
\* C4: remove(w) on a word that is not a valid path returns false and
\* leaves the whole tree as it was: nodes, values and is_leaf flags.
C4_RemoveMissing ==
    [][(op' = "remove" /\ ~ValidPath(trie, word')) =>
        /\ result' = FALSE
        /\ trie' = trie]_vars

\* A remove failed on a missing path below a node that carries a value.
C4_Witness ==
    /\ op = "remove" /\ ~wasPath /\ ~result
    /\ \E p \in Stored : p # word /\ IsPrefix(p, word)

\* ---------------------------------------------------------------- C5
\* C5: remove(w) returns true exactly when w is a valid path before the
\* call, whether or not its node carries a value; so it returns true for
\* a path that is only a prefix of other words and for the empty word.
C5_RemoveResult ==
    [][op' = "remove" =>
        /\ result' = ValidPath(trie, word')
        /\ word' = <<>> => result' = TRUE]_vars

\* A remove returned true on a valueless inner node.
C5_Witness ==
    /\ op = "remove" /\ result /\ ~wasStored /\ wasPath
    /\ children(trie, word) # {}
    /\ word # <<>>

\* ---------------------------------------------------------------- C6
\* C6 as stated: when remove(w) is called twice in a row on a stored word
\* w, the second call returns false.
C6_SecondRemoveFalse ==
    [][(op = "remove" /\ wasStored /\ op' = "remove" /\ word' = word) =>
        result' = FALSE]_vars

\* C6 amended: when remove(w) is called twice in a row on a stored word w,
\* the second call returns true, as the path of w is still there.
C6_SecondRemoveTrue ==
    [][(op = "remove" /\ wasStored /\ op' = "remove" /\ word' = word) =>
        result' = TRUE]_vars

\* A stored word has just been removed and another call can follow.
C6_Witness ==
    /\ op = "remove" /\ wasStored /\ result
    /\ word # <<>>
    /\ nops < MaxOps

\* ---------------------------------------------------------------- C7
\* C7: after new() and after every completed insert or remove, every node
\* (the root included) has is_leaf equal to `its children map is empty`.
C7_LeafFlagConsistent ==
    \A p \in DOMAIN trie : trie[p].is_leaf = (children(trie, p) = {})

\* ---------------------------------------------------------------- C8
\* C8: the set of nodes never shrinks from one state to the next, and a
\* remove call leaves the set of nodes as it was, changing no value but
\* that of its word.
C8_NodesOnlyGrow ==
    [][/\ DOMAIN trie \subseteq DOMAIN trie'
       /\ op' = "remove" =>
            /\ DOMAIN trie' = DOMAIN trie
            /\ \A p \in DOMAIN trie \ {word'} :
                  trie'[p].value = trie[p].value]_vars

\* A stored word at a node without children was removed.
C8_Witness ==
    /\ op = "remove" /\ result /\ wasStored
    /\ word \in DOMAIN trie
    /\ children(trie, word) = {}
    /\ Cardinality(DOMAIN trie) > 2

\* ---------------------------------------------------------------- C9
\* C9: insert(w, None) makes w a valid path without storing it: after the
\* call contains(w) is false and w is absent from get_all(), also when w
\* had a value before, and a remove(w) that follows returns true.
C9_InsertNone ==
    [][/\ (op' = "insert" /\ val' = None) =>
            /\ ValidPath(trie', word')
            /\ ~contains(trie', word')
            /\ \A ord \in Orders :
                  \A pr \in Range(get_all(trie', ord)) : pr[1] # word'
       /\ (op = "insert" /\ val = None /\ op' = "remove" /\ word' = word) =>
            result' = TRUE]_vars

\* insert(w, None) was called on a word stored with a value.
C9_Witness ==
    /\ op = "insert" /\ val = None /\ wasStored
    /\ nops < MaxOps

\* --------------------------------------------------------------- C10
\* C10: inserting a word again overwrites its value and nothing else:
\* after insert(w, Some(v1)) then insert(w, Some(v2)) get_all() holds w
\* once, with v2, and insert(w, x) called twice in a row leaves the tree
\* (nodes, values, is_leaf flags) as the first call left it.
C10_Reinsert ==
    [][(op = "insert" /\ op' = "insert" /\ word' = word) =>
        /\ (val # None /\ val' # None) =>
              \A ord \in Orders :
                LET all == get_all(trie', ord)
                    at == {i \in 1..Len(all) : all[i][1] = word'}
                IN  /\ Cardinality(at) = 1
                    /\ \A i \in at : all[i] = <<word', val'>>
        /\ val' = val => trie' = trie
        /\ DOMAIN trie' = DOMAIN trie
        /\ \A p \in DOMAIN trie :
              /\ p # word' => trie'[p].value = trie[p].value
              /\ trie'[p].is_leaf = trie[p].is_leaf]_vars

\* A word stored with one value was inserted again with another value.
C10_Witness ==
    /\ op = "insert" /\ wasStored
    /\ val # None /\ word # <<>>
    /\ \E w \in Stored : w # word
    /\ nops < MaxOps

\* The nodes of the tree that carry a terminal value, at or below path p.
Terminal(t, p) == {w \in DOMAIN t : t[w].value # None /\ IsPrefix(p, w)}

\* --------------------------------------------------------------- C11
\* C11: for every word w and every prefix p of w that is a valid path,
\* the pairs of starts_with(w) are among the pairs of starts_with(p).
C11_PrefixMonotone ==
    \A w \in Words : \A p \in Words :
        (IsPrefix(p, w) /\ ValidPath(trie, p)) =>
            \A o1 \in Orders : \A o2 \in Orders :
                Range(starts_with(trie, w, o1)) \subseteq
                    Range(starts_with(trie, p, o2))

\* A word two characters long with a non-empty result, under a one-character
\* prefix whose result is larger.
C11_Witness ==
    \E w \in Stored : \E p \in Words : \E o \in Orders :
        /\ Len(w) = 2 /\ Len(p) = 1 /\ IsPrefix(p, w)
        /\ Range(starts_with(trie, w, o)) # {}
        /\ Range(starts_with(trie, w, o)) # Range(starts_with(trie, p, o))

\* --------------------------------------------------------------- C12
\* C12: get_all() and starts_with("") return the same set of pairs, and
\* that set holds every node that carries a terminal value with its full
\* path, the root's own value under the empty word included.
C12_GetAllIsStartsWithEmpty ==
    \A o1 \in Orders : \A o2 \in Orders :
        /\ Range(get_all(trie, o1)) = Range(starts_with(trie, <<>>, o2))
        /\ Range(get_all(trie, o1)) =
               {<<w, trie[w].value>> : w \in Terminal(trie, <<>>)}

\* The root and a node two characters down both carry a value.
C12_Witness ==
    /\ trie[<<>>].value # None
    /\ \E w \in Terminal(trie, <<>>) : Len(w) = 2
    /\ \E p \in DOMAIN trie : trie[p].value = None

\* --------------------------------------------------------------- C13
\* C13: contains(w) is false for a word that is only a proper prefix of
\* stored words and for a word whose path does not exist; contains("")
\* is true exactly when the root carries a terminal value, that is when
\* insert("", Some(v)) was called and the value was not cleared since.
C13_ContainsOnlyStored ==
    /\ \A w \in Words :
          /\ (w \notin Stored /\ \E x \in Stored : IsPrefix(w, x)) =>
                ~contains(trie, w)
          /\ w \notin DOMAIN trie => ~contains(trie, w)
    /\ contains(trie, <<>>) <=> trie[<<>>].value # None
    /\ contains(trie, <<>>) <=> M[<<>>] # None

\* An inner node without a value above a stored word, a missing path, and
\* a root that carries a value.
C13_Witness ==
    /\ \E w \in Words : w # <<>> /\ w \notin Stored
                        /\ \E x \in Stored : IsPrefix(w, x)
    /\ \E w \in Words : w \notin DOMAIN trie
    /\ <<>> \in Stored

\* --------------------------------------------------------------- C14
\* The nodes and terminal values of a tree, without the is_leaf flags.
Obs(t) == [p \in DOMAIN t |-> t[p].value]

\* The trees with the nodes and values of t and any is_leaf flags.
Reflagged(t) ==
    {[p \in DOMAIN t |-> [is_leaf |-> f[p], value |-> t[p].value]] :
        f \in [DOMAIN t -> BOOLEAN]}

\* C14: the is_leaf flags never influence what a caller observes: on a
\* tree with the same nodes and values and any other flags, every call of
\* contains, starts_with, get_all, insert and remove returns the same
\* result and leaves the same nodes and values, so the two trees stay
\* alike under any sequence of calls.
C14_LeafFlagsUnobservable ==
    LET others == Reflagged(trie)
    IN  /\ \A o \in Orders :
              LET all == get_all(trie, o)
              IN  \A t2 \in others : get_all(t2, o) = all
        /\ \A w \in Words :
              LET c == contains(trie, w)
                  r == remove(trie, w)
                  ro == Obs(r.tree)
              IN  /\ \A t2 \in others :
                        LET r2 == remove(t2, w)
                        IN  /\ contains(t2, w) = c
                            /\ r2.ret = r.ret
                            /\ Obs(r2.tree) = ro
                  /\ \A o \in Orders :
                        LET sw == starts_with(trie, w, o)
                        IN  \A t2 \in others : starts_with(t2, w, o) = sw
                  /\ \A v \in OptValues :
                        LET io == Obs(insert(trie, w, v))
                        IN  \A t2 \in others : Obs(insert(t2, w, v)) = io

\* A tree with stored words in which remove has set is_leaf on a node
\* that has children.
C14_Witness ==
    /\ Stored # {}
    /\ Cardinality(DOMAIN trie) >= 3
    /\ \E p \in DOMAIN trie : trie[p].is_leaf /\ children(trie, p) # {}
    /\ \E p \in DOMAIN trie : ~trie[p].is_leaf /\ children(trie, p) # {}

\* --------------------------------------------------------------- C15
\* C15 as stated: starts_with(p) is empty both when the path of p does
\* not exist and when it exists but the node of p carries no value.
C15_EmptyWithoutOwnValue ==
    \A p \in Words : \A o \in Orders :
        (p \notin DOMAIN trie \/ trie[p].value = None) =>
            starts_with(trie, p, o) = <<>>

\* C15 amended: starts_with(p) is empty exactly when the path of p does
\* not exist or it exists and no node at or below p carries a value; the
\* result does not tell these two cases apart.
C15_EmptyWithoutAnyValue ==
    \A p \in Words : \A o \in Orders :
        starts_with(trie, p, o) = <<>> <=>
            (p \notin DOMAIN trie \/ Terminal(trie, p) = {})

\* A missing path, a path without any value at or below it, and a path
\* without a value of its own above a stored word.
C15_Witness ==
    /\ \E p \in Words : p \notin DOMAIN trie
    /\ \E p \in DOMAIN trie : Terminal(trie, p) = {}
    /\ \E p \in DOMAIN trie : trie[p].value = None /\ Terminal(trie, p) # {}

\* --------------------------------------------------------------- C16
\* C16: after insert(w, value), in whatever state it was called, the final
\* node of w has is_leaf true exactly when it has no children, and every
\* node of a proper prefix of w has is_leaf false.
C16_InsertLeafFlags ==
    op = "insert" =>
        /\ trie[word].is_leaf <=> (children(trie, word) = {})
        /\ \A i \in 0..(Len(word) - 1) : ~trie[Take(word, i)].is_leaf

\* --------------------------------------------------------------- C17
\* C17: remove(w) on a valid path changes the is_leaf flag of at most one
\* node: the node of the longest proper prefix of w that carries a value
\* gets is_leaf true, and when no proper prefix carries a value no flag
\* changes.  The node of w and the nodes below it keep their children and
\* their flags.
C17_RemoveFlagFrame ==
    [][(op' = "remove" /\ ValidPath(trie, word')) =>
        LET w == word'
            S == {i \in 0..(Len(w) - 1) : trie[Take(w, i)].value # None}
            m == CHOOSE i \in S : \A j \in S : j <= i
        IN  /\ DOMAIN trie' = DOMAIN trie
            /\ S = {} => \A p \in DOMAIN trie :
                            trie'[p].is_leaf = trie[p].is_leaf
            /\ S # {} =>
                  /\ trie'[Take(w, m)].is_leaf
                  /\ \A p \in DOMAIN trie \ {Take(w, m)} :
                        trie'[p].is_leaf = trie[p].is_leaf
            /\ \A p \in DOMAIN trie : IsPrefix(w, p) =>
                  /\ children(trie', p) = children(trie, p)
                  /\ trie'[p].is_leaf = trie[p].is_leaf]_vars

\* A word was removed below two stored proper prefixes, and the flag of
\* the nearer one is set while it keeps its child.
C17_Witness ==
    /\ op = "remove" /\ result /\ Len(word) = 2
    /\ <<>> \in Stored /\ Take(word, 1) \in Stored
    /\ trie[Take(word, 1)].is_leaf
    /\ ~trie[<<>>].is_leaf

\* --------------------------------------------------------------- C18
\* C18: in every state reached from new() by one or more insert calls and
\* no remove call, every node has is_leaf equal to `its children map is
\* empty`; without a remove call no node has is_leaf true together with
\* a non-empty children map.
C18_InsertOnlyLeafFlags ==
    /\ nops >= 1 =>
          \A p \in DOMAIN trie : trie[p].is_leaf = (children(trie, p) = {})
    /\ \A p \in DOMAIN trie : ~(trie[p].is_leaf /\ children(trie, p) # {})

\* An insert ended on a node that had been a leaf and has children now.
C18_Witness ==
    /\ op = "insert" /\ nops >= 3 /\ wasPath
    /\ children(trie, word) # {}
    /\ word # <<>>
    /\ \E p \in DOMAIN trie : trie[p].is_leaf

\* --------------------------------------------------------------- C19
\* C19: for every prefix p the sequence returned by starts_with(p), and
\* by get_all(), holds each stored word at most once: its length is the
\* number of nodes with a terminal value at or below the node of p.
C19_NoDuplicates ==
    \A o \in Orders :
        /\ \A p \in Words :
              LET sw == starts_with(trie, p, o)
              IN  /\ Len(sw) = Cardinality(Terminal(trie, p))
                  /\ \A i \in 1..Len(sw) : \A j \in 1..Len(sw) :
                        sw[i][1] = sw[j][1] => i = j
        /\ Len(get_all(trie, o)) = Cardinality(Terminal(trie, <<>>))

\* Three stored words on one branch: the root, a child and a grandchild.
C19_Witness ==
    \E w \in Stored :
        /\ Len(w) = 2
        /\ Take(w, 1) \in Stored
        /\ <<>> \in Stored
        /\ \E x \in DOMAIN trie : ~IsPrefix(Take(w, 1), x) /\ x # <<>>

====
